---- MODULE Spec2Model ----
(***************************************************************************)
(* Synthetic social-graph generator of the social-graph service scripts:   *)
(*   core/config.py     the configuration tables                           *)
(*   core/segmenter.py  UserSegmentation (tier sizes, shuffle-and-slice,   *)
(*                      follower / following ranges)                       *)
(*   core/generator.py  RelationshipGenerator (Phase A weighted seeding,   *)
(*                      Phase B following limits, Phase C follower targets)*)
(*                                                                         *)
(* The specifications share the variables and the actions:                 *)
(*   Spec         populations of at most MaxUsers users, the three phases  *)
(*                started in any order, any number of times;               *)
(*   PipeSpec     the drivers' order (A, then B, then C), populations of   *)
(*                at most MaxUsers users and the large population BigUsers;*)
(*   PipeFairSpec PipeSpec with the loops of a running phase executed;     *)
(*   SegSpec      the segmenter alone, populations 1..MaxSeg and 100, with *)
(*                and without a configured seed;                           *)
(*   SizeSpec     the tier sizes alone, populations 1..MaxTotal, 5000 and  *)
(*                BigUsers;                                                *)
(*   RangeSpec    the range queries on the segmentation objects of         *)
(*                SizeSpec;                                                *)
(*   DriverSpec   load_dynamodb.py and load_dynamodb_with_validation.py;   *)
(*   LegacySpec   the local pipeline of tests/generate_test_local.py, with *)
(*                its own tables and with tables that exhaust the padding  *)
(*                allowance on a population of OverflowUsers users;        *)
(*   ConfigSpec   the pipeline from the import of the package on, under    *)
(*                valid and invalid tables;                                *)
(*   UnrangedSpec the pipeline under tables without ranges for one tier;   *)
(*   StatSpec     Spec with get_statistics;                                *)
(*   AccessorSpec PipeSpec with a caller that keeps the value an accessor  *)
(*                returned and changes it.                                 *)
(***************************************************************************)
EXTENDS Integers, Sequences, FiniteSets

VARIABLES
    cfg,            \* which instance of the config.py tables is loaded
    seed,           \* config.SEGMENTATION_SEED (NoSeed models None)
    numUsers,       \* the population size handed to UserSegmentation
    rng,            \* state of the process-wide generator of module random
    segmentation,   \* the UserSegmentation object (total_users and the counts)
    segments,       \* result of the latest segment_users call
    prevSegments,   \* result of the call before it
    nCalls,         \* number of segment_users calls made so far
    relationships,  \* RelationshipGenerator.relationships
    follower_map,   \* RelationshipGenerator.follower_map  (a defaultdict(set))
    following_map,  \* RelationshipGenerator.following_map (a defaultdict(set))
    phase,          \* "nogen", "idle", or the phase being executed
    idx,            \* position of the running phase in the flattened user list
    raised,         \* the exception that ended the run, or "none"
    pipe,           \* history: the phases completed so far, in driver order
    ret,            \* the latest call of a query method and the value it returned
    draw,           \* the locals of the latest step of a phase loop
    driver,         \* the script that runs the generator, "none" for a library caller
    held            \* the value of an accessor that a caller keeps, and how it was got

vars == <<cfg, seed, numUsers, rng, segmentation, segments, prevSegments, nCalls,
          relationships, follower_map, following_map, phase, idx, raised, pipe,
          ret, draw, driver, held>>

genVars == <<relationships, follower_map, following_map, phase, idx, raised, pipe>>

segVars == <<segmentation, segments, prevSegments, nCalls>>

(***************************************************************************)
(* Bounds of the model                                                     *)
(***************************************************************************)
MaxUsers == 3

MaxTotal == 100

MaxSeg == 8

MaxCalls == 2

RngMod == 8

(***************************************************************************)
(* Populations that exercise the reference configuration at scale          *)
(***************************************************************************)
ScalingUsers == 100

RefScenarioUsers == 5000

BigUsers == 20100

(***************************************************************************)
(* Generic helpers                                                         *)
(***************************************************************************)
TierSet == {"small", "medium", "big", "top"}

Max(a, b) == IF a >= b THEN a ELSE b

Min(a, b) == IF a <= b THEN a ELSE b

RECURSIVE Pow2(_)
Pow2(n) == IF n <= 0 THEN 1 ELSE 2 * Pow2(n - 1)

RECURSIVE BitLen(_)
BitLen(n) == IF n <= 0 THEN 0 ELSE 1 + BitLen(n \div 2)

SeqRange(s) == {s[i] : i \in 1..Len(s)}

Slice(s, lo, hi) == [i \in 1..Max(0, Min(hi, Len(s)) - lo) |-> s[lo + i]]

\* no user has been processed since the latest phase began.  A step records
\* its phase, the user, the count read at its start, the target drawn (-1:
\* none), the size of the candidate pool of Phase C (-1: not built), and of
\* the selection loop of Phase A the batches made and whether it fell short
NoDraw == [attempts |-> 0, short |-> FALSE, step |-> "", uid |-> 0,
           current |-> 0, target |-> -1, pool |-> -1]

Locals(step, uid, current, target, pool) ==
    [NoDraw EXCEPT !.step = step, !.uid = uid, !.current = current,
                   !.target = target, !.pool = pool]

\* no caller keeps a value an accessor returned
NotHeld == [call |-> "none", keys |-> {}, snap |-> <<>>, changed |-> FALSE]

\* no query method has been called
NoCall == [call |-> "none", arg |-> "", value |-> <<>>, n |-> 0]

(***************************************************************************)
(* core/config.py                                                          *)
(*                                                                         *)
(* A ratio is a binary64 literal.  It is kept as the decimal num/den of    *)
(* the literal together with the exact error of the nearest double:        *)
(*     double = num/den - c / (den * 2^e)                                  *)
(* so c > 0 means that the double lies below the decimal literal.          *)
(***************************************************************************)
Ratio(num, den, c, e) == [num |-> num, den |-> den, c |-> c, e |-> e]

R_0 == Ratio(0, 1, 0, 53)

NoSeed == -1

SEGMENTATION_SEED == 42

MAX_FOLLOWEE_SELECTION_ATTEMPTS == 5

RefConfig ==
    [ USER_TIER_RATIOS |->
        [small |-> Ratio(85, 100, 20, 53), medium |-> Ratio(14, 100, -48, 55),
         big |-> Ratio(1, 100, -12, 59), top |-> R_0],
      FOLLOWER_RATIOS |->
        [small  |-> <<Ratio(2, 10000, -3536, 65), Ratio(2, 100, -12, 58)>>,
         medium |-> <<Ratio(2, 100, -12, 58), Ratio(1, 2, 0, 53)>>,
         big    |-> <<Ratio(1, 2, 0, 53), Ratio(5, 1, 0, 50)>>,
         top    |-> <<R_0, R_0>>],
      FOLLOWER_ABSOLUTE_MINIMUMS |->
        [small |-> 10, medium |-> 100, big |-> 50000, top |-> 0],
      FOLLOWING_RATIOS |->
        [small  |-> <<Ratio(1, 100, -12, 59), Ratio(4, 100, -12, 57)>>,
         medium |-> <<Ratio(2, 100, -12, 58), Ratio(1, 10, -4, 56)>>,
         big    |-> <<Ratio(1, 1000, -96, 62), Ratio(4, 1000, -96, 60)>>,
         top    |-> <<R_0, R_0>>],
      FOLLOWING_ABSOLUTE_MINIMUMS |->
        [small |-> 50, medium |-> 100, big |-> 50, top |-> 0],
      FOLLOWING_ABSOLUTE_MAXIMUMS |->
        [small |-> 200, medium |-> 500, big |-> 200, top |-> 0],
      TIER_WEIGHTS |->
        [small |-> 1, medium |-> 5, big |-> 50, top |-> 0],
      VALIDATE_RANGES |-> TRUE ]

(***************************************************************************)
(* The same tables tuned for populations of a handful of users, so that    *)
(* every tier is populated and every range is within reach of MaxUsers.    *)
(***************************************************************************)
SmallConfig ==
    [ USER_TIER_RATIOS |->
        [small |-> Ratio(35, 100, 40, 54), medium |-> Ratio(35, 100, 40, 54),
         big |-> Ratio(30, 100, 20, 54), top |-> R_0],
      FOLLOWER_RATIOS |->
        [small  |-> <<Ratio(1, 4, 0, 54), Ratio(1, 2, 0, 53)>>,
         medium |-> <<Ratio(1, 2, 0, 53), Ratio(1, 1, 0, 53)>>,
         big    |-> <<Ratio(1, 2, 0, 53), Ratio(5, 1, 0, 50)>>,
         top    |-> <<R_0, R_0>>],
      FOLLOWER_ABSOLUTE_MINIMUMS |->
        [small |-> 1, medium |-> 1, big |-> 2, top |-> 0],
      FOLLOWING_RATIOS |->
        [small  |-> <<Ratio(1, 4, 0, 54), Ratio(1, 2, 0, 53)>>,
         medium |-> <<Ratio(1, 4, 0, 54), Ratio(1, 2, 0, 53)>>,
         big    |-> <<R_0, Ratio(1, 4, 0, 54)>>,
         top    |-> <<R_0, R_0>>],
      FOLLOWING_ABSOLUTE_MINIMUMS |->
        [small |-> 1, medium |-> 1, big |-> 0, top |-> 0],
      FOLLOWING_ABSOLUTE_MAXIMUMS |->
        [small |-> 2, medium |-> 1, big |-> 1, top |-> 0],
      TIER_WEIGHTS |->
        [small |-> 1, medium |-> 5, big |-> 50, top |-> 0],
      VALIDATE_RANGES |-> TRUE ]

\* the seven tables keyed by tier
ConfigTables == DOMAIN SmallConfig \ {"VALIDATE_RANGES"}

\* the tier an incomplete table lacks
MissingTier == "medium"

Without(table, tier) == [t \in DOMAIN table \ {tier} |-> table[t]]

(***************************************************************************)
(* Tier ratios whose decimal sum is 0.90, 0.99, 1.01 and 1.10              *)
(***************************************************************************)
RatioTables ==
    [ sum090 |-> [small |-> Ratio(35, 100, 40, 54), medium |-> Ratio(35, 100, 40, 54),
                  big |-> Ratio(20, 100, -5, 52), top |-> R_0],
      sum099 |-> [small |-> Ratio(57, 100, 11, 51), medium |-> Ratio(29, 100, 9, 52),
                  big |-> Ratio(12, 100, 1, 51), top |-> Ratio(1, 100, -12, 59)],
      sum101 |-> [small |-> Ratio(70, 100, 5, 50), medium |-> Ratio(30, 100, 20, 54),
                  big |-> Ratio(1, 100, -12, 59), top |-> R_0],
      sum110 |-> [small |-> Ratio(35, 100, 40, 54), medium |-> Ratio(35, 100, 40, 54),
                  big |-> Ratio(30, 100, 20, 54), top |-> Ratio(10, 100, -5, 53)] ]

(***************************************************************************)
(* The tables the run is configured with.  cfg names the reference tables, *)
(* the small tables, the small tables with MissingTier absent from the     *)
(* table cfg names, the small tables with the tier ratios cfg names, or    *)
(* ("unranged") the small tables with validation switched off and          *)
(* MissingTier absent from both range tables.                              *)
(***************************************************************************)
Config ==
    CASE cfg = "ref" -> RefConfig
      [] cfg \in ConfigTables ->
           [SmallConfig EXCEPT ![cfg] = Without(@, MissingTier)]
      [] cfg \in DOMAIN RatioTables ->
           [SmallConfig EXCEPT !.USER_TIER_RATIOS = RatioTables[cfg]]
      [] cfg = "unranged" ->
           [SmallConfig EXCEPT !.VALIDATE_RANGES = FALSE,
                               !.FOLLOWER_RATIOS = Without(@, MissingTier),
                               !.FOLLOWING_RATIOS = Without(@, MissingTier)]
      [] OTHER -> SmallConfig

(***************************************************************************)
(* int(total_users * ratio): the binary64 product, rounded to nearest      *)
(* (ties to even), then truncated.  With q = floor(n * num / den):         *)
(*  - the double is at or above the literal, or n * num / den is not an    *)
(*    integer: the product lies in [q, q + 1) and far from q + 1, so the   *)
(*    result is q;                                                         *)
(*  - otherwise the exact product lies n * c / (den * 2^e) below the       *)
(*    integer q; the rounded product is q when that distance is at most    *)
(*    half an ulp, 2^(k - 54) for a value in [2^(k-1), 2^k), else the      *)
(*    truncation gives q - 1.                                              *)
(***************************************************************************)
\* mutant: the exact product truncated, the rounding of the multiplication lost
IntOfExactProduct(n, r) ==
    LET exact == n * r.num
        q == exact \div r.den
    IN  IF r.c <= 0 \/ exact % r.den # 0 \/ q = 0 THEN q ELSE q - 1

IntOfProduct(n, r) ==
    LET exact == n * r.num
        q == exact \div r.den
    IN  IF r.c <= 0 \/ exact % r.den # 0 \/ q = 0
          THEN q
          ELSE IF n * r.c * 2 <= r.den * Pow2(BitLen(q - 1) + r.e - 53)
                 THEN q
                 ELSE q - 1

(***************************************************************************)
(* binary64 values and their addition, for sum(USER_TIER_RATIOS.values()). *)
(* A positive double is [e, m]: m holds its 53 significant bits, most      *)
(* significant first (m[1] = 1), and bit m[i] weighs 2^(e - i + 1).        *)
(***************************************************************************)
FZero == [e |-> 0, m |-> <<>>]

\* bits + 1 as <<bits, carry out>>
Increment(bits) ==
    LET zeros == {i \in 1..Len(bits) : bits[i] = 0}
        k == IF zeros = {} THEN 0 ELSE CHOOSE i \in zeros : \A j \in zeros : j <= i
    IN  <<[i \in 1..Len(bits) |-> IF i < k THEN bits[i] ELSE IF i = k THEN 1 ELSE 0],
          IF k = 0 THEN 1 ELSE 0>>

\* round to nearest, ties to even: head holds 53 bits, up tells whether the
\* discarded part is above half, or half with the last kept bit set
RoundTo53(e, head, up) ==
    IF ~up THEN [e |-> e, m |-> head]
    ELSE LET inc == Increment(head)
         IN  IF inc[2] = 0 THEN [e |-> e, m |-> inc[1]]
             ELSE [e |-> e + 1, m |-> <<1>> \o SubSeq(inc[1], 1, 52)]

\* 2^i modulo den
RECURSIVE PowMod(_, _)
PowMod(i, den) ==
    IF i = 0 THEN 1 % den
    ELSE LET h == PowMod(i \div 2, den)
         IN  (h * h * (IF i % 2 = 1 THEN 2 ELSE 1)) % den

\* the remainder of the long division of rem / den (rem < den) after i bits
DivRem(rem, den, i) == (rem * PowMod(i, den)) % den

\* bit i after the binary point of rem / den
DivBit(rem, den, i) == IF 2 * DivRem(rem, den, i - 1) >= den THEN 1 ELSE 0

\* num / den scaled by a power of two into [1, 2): <<num, den, e>>
RECURSIVE Scale(_, _, _)
Scale(num, den, e) ==
    IF num >= 2 * den THEN Scale(num, 2 * den, e + 1)
    ELSE IF num < den THEN Scale(2 * num, den, e - 1)
    ELSE <<num, den, e>>

\* the double a decimal literal num / den denotes
DoubleOf(num, den) ==
    IF num = 0 THEN FZero
    ELSE LET sc == Scale(num, den, 0)
             rem == sc[1] - sc[2]
             head == [i \in 1..53 |-> IF i = 1 THEN 1 ELSE DivBit(rem, sc[2], i - 1)]
             last == DivRem(rem, sc[2], 52)
             up == \/ 2 * last > sc[2]
                   \/ 2 * last = sc[2] /\ head[53] = 1
         IN  RoundTo53(sc[3], head, up)

\* the bit of weight 2^p of x
BitAt(x, p) == IF p <= x.e /\ p > x.e - 53 THEN x.m[x.e - p + 1] ELSE 0

\* the carry into the weight 2^p when a and b are added: some lower weight
\* generates it and every weight between passes it on
CarryInto(a, b, p) ==
    \E q \in (Min(a.e, b.e) - 52)..(p - 1) :
        /\ BitAt(a, q) + BitAt(b, q) = 2
        /\ \A r \in (q + 1)..(p - 1) : BitAt(a, r) + BitAt(b, r) >= 1

\* the bit of weight 2^p of the exact sum a + b
SumBit(a, b, p) ==
    (BitAt(a, p) + BitAt(b, p) + (IF CarryInto(a, b, p) THEN 1 ELSE 0)) % 2

\* a + b, rounded to nearest, ties to even
FAdd(a, b) ==
    IF a = FZero THEN b
    ELSE IF b = FZero THEN a
    ELSE LET hi == Max(a.e, b.e)
             lo == Min(a.e, b.e) - 52
             e == IF SumBit(a, b, hi + 1) = 1 THEN hi + 1 ELSE hi
             head == [i \in 1..53 |-> SumBit(a, b, e - i + 1)]
             up == /\ SumBit(a, b, e - 53) = 1
                   /\ \/ \E p \in lo..(e - 54) : SumBit(a, b, p) = 1
                      \/ head[53] = 1
         IN  RoundTo53(e, head, up)

\* a <= b
FLeq(a, b) ==
    IF a = FZero THEN TRUE
    ELSE IF b = FZero THEN FALSE
    ELSE IF a.e # b.e THEN a.e < b.e
    ELSE \/ a.m = b.m
         \/ \E i \in 1..53 : /\ a.m[i] < b.m[i]
                              /\ \A j \in 1..(i - 1) : a.m[j] = b.m[j]

(***************************************************************************)
(* core/config.py: validate_config, run when the package is imported       *)
(***************************************************************************)
\* the order of the keys of the tier tables
TierOrder == <<"small", "medium", "big", "top">>

TierPos(t) == CHOOSE i \in 1..Len(TierOrder) : TierOrder[i] = t

\* sum(table.values()): the values are added one by one to the start value
RECURSIVE FSum(_, _, _)
FSum(table, i, acc) ==
    IF i > Len(TierOrder) THEN acc
    ELSE IF TierOrder[i] \notin DOMAIN table THEN FSum(table, i + 1, acc)
    ELSE FSum(table, i + 1,
              FAdd(acc, DoubleOf(table[TierOrder[i]].num, table[TierOrder[i]].den)))

\* the tables validate_config compares with required_tiers
CheckedTables ==
    {"USER_TIER_RATIOS", "FOLLOWER_RATIOS", "FOLLOWING_RATIOS", "TIER_WEIGHTS",
     "FOLLOWER_ABSOLUTE_MINIMUMS", "FOLLOWING_ABSOLUTE_MINIMUMS"}

\* the exception validate_config raises, "none" when it returns
ValidateConfig ==
    IF ~Config.VALIDATE_RANGES THEN "none"
    ELSE LET total_ratio == FSum(Config.USER_TIER_RATIOS, 1, FZero)
         IN  IF ~(FLeq(DoubleOf(99, 100), total_ratio)
                    /\ FLeq(total_ratio, DoubleOf(101, 100)))
               THEN "ValueError"
             ELSE IF \E table \in CheckedTables : DOMAIN Config[table] # TierSet
               THEN "ValueError"
             ELSE "none"

\* import of the core package: config.py runs validate_config()
ImportConfig ==
    /\ phase = "import"
    /\ raised = "none"
    /\ raised' = ValidateConfig
    /\ phase' = IF ValidateConfig = "none" THEN "nogen" ELSE "import"
    /\ UNCHANGED <<held, driver, draw, ret, cfg, seed, numUsers, rng>>
    /\ UNCHANGED segVars
    /\ UNCHANGED <<relationships, follower_map, following_map, idx, pipe>>

(***************************************************************************)
(* core/segmenter.py: UserSegmentation.__init__                            *)
(***************************************************************************)
NewSegmentation(n) ==
    LET ratios == Config.USER_TIER_RATIOS
        small == IntOfProduct(n, ratios.small)
        medium == IntOfProduct(n, ratios.medium)
        big == IntOfProduct(n, ratios.big)
    IN  [total_users |-> n,
         small_count |-> small,
         medium_count |-> medium,
         big_count |-> big,
         top_count |-> Max(1, n - small - medium - big)]

NoSegmentation ==
    [total_users |-> 0, small_count |-> 0, medium_count |-> 0,
     big_count |-> 0, top_count |-> 0]

(***************************************************************************)
(* module random.  The generator is a deterministic function of its state; *)
(* the state space is scaled down to RngMod states.  Entropy stands for a  *)
(* state seeded from the operating system (random.seed() without an        *)
(* argument): a state nobody knows, so every draw made from it is a        *)
(* nondeterministic choice.                                                *)
(***************************************************************************)
Entropy == -1

RngStates == 0..(RngMod - 1)

RngNext(s) == (5 * s + 3) % RngMod

RandomSeed(a) == a % RngMod

\* random.shuffle: for i in reversed(range(1, len(x))): j = randbelow(i + 1);
\* x[i], x[j] = x[j], x[i].  Positions are 1-based here.  st = <<x, s>>.
ShuffleStep(st, i) ==
    LET s == RngNext(st[2])
        j == (((s + 1) * 1103) % i) + 1
        x == st[1]
    IN  <<[x EXCEPT ![i] = x[j], ![j] = x[i]], s>>

\* the steps i = hi, hi - 1, ..., lo in that order
RECURSIVE ShuffleSteps(_, _, _)
ShuffleSteps(st, hi, lo) ==
    IF hi < lo \/ Len(st[1]) < 2 THEN st
    ELSE IF hi = lo THEN ShuffleStep(st, hi)
    ELSE LET mid == (hi + lo) \div 2
         IN  ShuffleSteps(ShuffleSteps(st, hi, mid + 1), mid, lo)

Shuffle(x, s) == ShuffleSteps(<<x, s>>, Len(x), 2)

(***************************************************************************)
(* core/segmenter.py: UserSegmentation.segment_users                       *)
(***************************************************************************)
\* mutant: the medium slice starts one position late
SliceSegmentsOffByOne(sg, shuffled_users) ==
    LET a == sg.small_count
        b == sg.small_count + sg.medium_count
        c == sg.small_count + sg.medium_count + sg.big_count
    IN  [small  |-> Slice(shuffled_users, 0, a),
         medium |-> Slice(shuffled_users, a + 1, b),
         big    |-> Slice(shuffled_users, b, c),
         top    |-> Slice(shuffled_users, c, Len(shuffled_users))]

SliceSegments(sg, shuffled_users) ==
    LET a == sg.small_count
        b == sg.small_count + sg.medium_count
        c == sg.small_count + sg.medium_count + sg.big_count
    IN  [small  |-> Slice(shuffled_users, 0, a),
         medium |-> Slice(shuffled_users, a, b),
         big    |-> Slice(shuffled_users, b, c),
         top    |-> Slice(shuffled_users, c, Len(shuffled_users))]

NoSegments == [small |-> <<>>, medium |-> <<>>, big |-> <<>>, top |-> <<>>]

UserIds == [i \in 1..numUsers |-> i]

\* mutant: the configured seed is never applied
ShuffleStatesUnseeded(sd, r) == IF r = Entropy THEN RngStates ELSE {r}

\* the generator states the shuffle may start from: random.seed(SEGMENTATION_SEED)
\* when a seed is configured, else the state the process-wide generator is in
ShuffleStates(sd, r) ==
    IF sd # NoSeed THEN {RandomSeed(sd)}
    ELSE IF r = Entropy THEN RngStates
    ELSE {r}

Construct ==
    /\ phase = "nogen"
    /\ segmentation.total_users = 0
    /\ segmentation' = NewSegmentation(numUsers)
    /\ UNCHANGED <<held, driver, draw, ret, cfg, seed, numUsers, rng, segments, prevSegments, nCalls>>
    /\ UNCHANGED genVars

SegmentUsers ==
    /\ segmentation.total_users > 0
    /\ phase = "nogen"
    /\ nCalls < MaxCalls
    /\ \E s0 \in ShuffleStates(seed, rng) :
          LET out == Shuffle(UserIds, s0)
          IN  /\ segments' = SliceSegments(segmentation, out[1])
              /\ rng' = IF seed # NoSeed \/ rng = Entropy THEN Entropy ELSE out[2]
    /\ prevSegments' = segments
    /\ nCalls' = nCalls + 1
    /\ UNCHANGED <<held, driver, draw, ret, cfg, seed, numUsers, segmentation>>
    /\ UNCHANGED genVars

\* a caller seeding the process-wide generator ahead of a segment_users call
\* (random.seed(seed) in run_generator)
ExternalSeed ==
    /\ phase = "nogen"
    /\ nCalls < MaxCalls
    /\ \E a \in RngStates : rng' = RandomSeed(a) /\ rng' # rng
    /\ UNCHANGED <<held, driver, draw, ret, cfg, seed, numUsers>>
    /\ UNCHANGED segVars
    /\ UNCHANGED genVars

(***************************************************************************)
(* core/segmenter.py: the follower and following ranges                    *)
(***************************************************************************)
\* mutant: the maximum is the bare product, max(min + 1, ...) lost
GetFollowerRangeNoGap(user_type) ==
    IF user_type \notin DOMAIN Config.FOLLOWER_RATIOS THEN <<0, 0>>
    ELSE LET ratio == Config.FOLLOWER_RATIOS[user_type]
             abs_min == Config.FOLLOWER_ABSOLUTE_MINIMUMS[user_type]
         IN  <<Max(abs_min, IntOfProduct(segmentation.total_users, ratio[1])),
               IntOfProduct(segmentation.total_users, ratio[2])>>

\* mutant: a tier without a ratio entry gets the range (1, 2)
GetFollowerRangeUnknownPadded(user_type) ==
    IF user_type \notin DOMAIN Config.FOLLOWER_RATIOS THEN <<1, 2>>
    ELSE LET ratio == Config.FOLLOWER_RATIOS[user_type]
             abs_min == Config.FOLLOWER_ABSOLUTE_MINIMUMS[user_type]
             min_followers == Max(abs_min, IntOfProduct(segmentation.total_users, ratio[1]))
             max_followers == Max(min_followers + 1,
                                  IntOfProduct(segmentation.total_users, ratio[2]))
         IN  <<min_followers, max_followers>>

GetFollowerRange(user_type) ==
    IF user_type \notin DOMAIN Config.FOLLOWER_RATIOS THEN <<0, 0>>
    ELSE LET ratio == Config.FOLLOWER_RATIOS[user_type]
             abs_min == Config.FOLLOWER_ABSOLUTE_MINIMUMS[user_type]
             min_followers == Max(abs_min, IntOfProduct(segmentation.total_users, ratio[1]))
             max_followers == Max(min_followers + 1,
                                  IntOfProduct(segmentation.total_users, ratio[2]))
         IN  <<min_followers, max_followers>>

\* mutant: the absolute maximum is not applied
GetFollowingRangeUncapped(user_type) ==
    IF user_type \notin DOMAIN Config.FOLLOWING_RATIOS THEN <<0, 0>>
    ELSE LET ratio == Config.FOLLOWING_RATIOS[user_type]
             abs_min == Config.FOLLOWING_ABSOLUTE_MINIMUMS[user_type]
             min_following == Max(abs_min, IntOfProduct(segmentation.total_users, ratio[1]))
         IN  <<min_following,
               Max(min_following + 1, IntOfProduct(segmentation.total_users, ratio[2]))>>

GetFollowingRange(user_type) ==
    IF user_type \notin DOMAIN Config.FOLLOWING_RATIOS THEN <<0, 0>>
    ELSE LET ratio == Config.FOLLOWING_RATIOS[user_type]
             abs_min == Config.FOLLOWING_ABSOLUTE_MINIMUMS[user_type]
             abs_max == Config.FOLLOWING_ABSOLUTE_MAXIMUMS[user_type]
             min_following == Max(abs_min, IntOfProduct(segmentation.total_users, ratio[1]))
             max_following == Max(min_following + 1,
                                  IntOfProduct(segmentation.total_users, ratio[2]))
         IN  <<min_following, Min(max_following, abs_max)>>

\* tier names a caller may pass that no table of config.py defines
\* config.FOLLOWER_ABSOLUTE_MINIMUMS[user_type] of a tier the table lacks
GetFollowerRangeRaises(user_type) ==
    /\ user_type \in DOMAIN Config.FOLLOWER_RATIOS
    /\ user_type \notin DOMAIN Config.FOLLOWER_ABSOLUTE_MINIMUMS

\* config.FOLLOWING_ABSOLUTE_MINIMUMS[user_type] and
\* config.FOLLOWING_ABSOLUTE_MAXIMUMS[user_type] of a tier the table lacks
GetFollowingRangeRaises(user_type) ==
    /\ user_type \in DOMAIN Config.FOLLOWING_RATIOS
    /\ \/ user_type \notin DOMAIN Config.FOLLOWING_ABSOLUTE_MINIMUMS
       \/ user_type \notin DOMAIN Config.FOLLOWING_ABSOLUTE_MAXIMUMS

UnknownTiers == {"vip"}

\* a caller reads segmentation.get_follower_range(user_type)
FollowerRangeCall ==
    /\ segmentation.total_users > 0
    /\ \E user_type \in TierSet \cup UnknownTiers :
          /\ ret' = [call |-> "get_follower_range", arg |-> user_type,
                     value |-> GetFollowerRange(user_type), n |-> 1]
          /\ ret' # ret
    /\ UNCHANGED <<held, driver, draw, cfg, seed, numUsers, rng>>
    /\ UNCHANGED segVars
    /\ UNCHANGED genVars

\* a caller reads segmentation.get_following_range(user_type)
FollowingRangeCall ==
    /\ segmentation.total_users > 0
    /\ \E user_type \in TierSet \cup UnknownTiers :
          /\ ret' = [call |-> "get_following_range", arg |-> user_type,
                     value |-> GetFollowingRange(user_type), n |-> 1]
          /\ ret' # ret
    /\ UNCHANGED <<held, driver, draw, cfg, seed, numUsers, rng>>
    /\ UNCHANGED segVars
    /\ UNCHANGED genVars

(***************************************************************************)
(* collections.defaultdict(set): a dict whose keys appear on first access  *)
(***************************************************************************)
Get(m, key) == IF key \in DOMAIN m THEN m[key] ELSE {}

\* m[key] evaluated for every key of keys (each missing key is inserted)
Touch(m, keys) == [x \in DOMAIN m \cup keys |-> Get(m, x)]

\* for (key, v) in pairs: m[key].add(v)
AddAll(m, pairs) ==
    [x \in DOMAIN m \cup {pr[1] : pr \in pairs} |->
        Get(m, x) \cup {pr[2] : pr \in {q \in pairs : q[1] = x}}]

\* for (key, v) in pairs: m[key].discard(v)
DiscardAll(m, pairs) ==
    [x \in DOMAIN m \cup {pr[1] : pr \in pairs} |->
        Get(m, x) \ {pr[2] : pr \in {q \in pairs : q[1] = x}}]

(***************************************************************************)
(* core/generator.py: RelationshipGenerator                                *)
(***************************************************************************)
\* all_users: the tier lists flattened in the order of the segments dict
AllUsers == segments.small \o segments.medium \o segments.big \o segments.top

\* self.user_tier, filled tier by tier in __init__ (a later tier overwrites)
UserTier(u) ==
    IF u \in SeqRange(segments.top) THEN "top"
    ELSE IF u \in SeqRange(segments.big) THEN "big"
    ELSE IF u \in SeqRange(segments.medium) THEN "medium"
    ELSE "small"

\* the tier whose list holds position i of the flattened iteration
TierAt(i) ==
    IF i <= Len(segments.small) THEN "small"
    ELSE IF i <= Len(segments.small) + Len(segments.medium) THEN "medium"
    ELSE IF i <= Len(segments.small) + Len(segments.medium) + Len(segments.big)
      THEN "big"
    ELSE "top"

\* weights = [config.TIER_WEIGHTS.get(self.user_tier[u], 1) for u in all_users]
Weight(u) ==
    IF UserTier(u) \in DOMAIN Config.TIER_WEIGHTS
      THEN Config.TIER_WEIGHTS[UserTier(u)] ELSE 1

\* users random.choices can return: those of positive weight
\* mutant: the weights are ignored
DrawableWhateverWeight == SeqRange(AllUsers)

Drawable == {u \in SeqRange(AllUsers) : Weight(u) > 0}

\* mutant: the test cand == follower_id is missing
BatchOutcomesWithSelf(follower_id, k, selected) ==
    {selected \cup d : d \in
        {d \in SUBSET (Drawable \ selected) :
            /\ Cardinality(d) <= k - Cardinality(selected)
            /\ d = {} => selected # {}}}

\* one pass of the while loop body: a batch of k weighted draws, the new
\* candidates other than follower_id added until selected holds k of them.
\* A batch that adds nothing drew only follower_id and selected candidates.
BatchOutcomes(follower_id, k, selected) ==
    {selected \cup d : d \in
        {d \in SUBSET (Drawable \ ({follower_id} \cup selected)) :
            /\ Cardinality(d) <= k - Cardinality(selected)
            /\ d = {} => (selected \cup ({follower_id} \cap Drawable)) # {}}}

\* mutant: the loop runs while attempts <= MAX_FOLLOWEE_SELECTION_ATTEMPTS
RECURSIVE SelectLoopOneMore(_, _, _, _)
SelectLoopOneMore(follower_id, k, selected, attempts) ==
    IF Cardinality(selected) < k /\ attempts <= MAX_FOLLOWEE_SELECTION_ATTEMPTS
      THEN UNION {SelectLoopOneMore(follower_id, k, s2, attempts + 1) :
                    s2 \in BatchOutcomes(follower_id, k, selected)}
      ELSE {<<selected, attempts>>}

\* while len(selected) < k and attempts < MAX_FOLLOWEE_SELECTION_ATTEMPTS:
\* the pairs (selected, attempts) the loop can end with
RECURSIVE SelectLoop(_, _, _, _)
SelectLoop(follower_id, k, selected, attempts) ==
    IF Cardinality(selected) < k /\ attempts < MAX_FOLLOWEE_SELECTION_ATTEMPTS
      THEN UNION {SelectLoop(follower_id, k, s2, attempts + 1) :
                    s2 \in BatchOutcomes(follower_id, k, selected)}
      ELSE {<<selected, attempts>>}

\* mutant: the following view is not updated
AddEdgesForgetFollowing(fm, gm, new) ==
    /\ relationships' = relationships \cup new
    /\ follower_map' = AddAll(fm, {<<r[2], r[1]>> : r \in new})
    /\ following_map' = gm

\* mutant: every new edge is added in both directions
AddEdgesMutual(fm, gm, new) ==
    LET both == new \cup {<<r[2], r[1]>> : r \in new}
    IN  /\ relationships' = relationships \cup both
        /\ follower_map' = AddAll(fm, {<<r[2], r[1]>> : r \in both})
        /\ following_map' = AddAll(gm, both)

\* relationships.add(rel) with both adjacency views, for every rel of new;
\* fm and gm are follower_map and following_map as the step has left them
AddEdges(fm, gm, new) ==
    /\ relationships' = relationships \cup new
    /\ follower_map' = AddAll(fm, {<<r[2], r[1]>> : r \in new})
    /\ following_map' = AddAll(gm, new)

\* mutant: the edges are discarded in the opposite direction
RemoveEdgesReversed(fm, gm, gone) ==
    /\ relationships' = relationships \ {<<r[2], r[1]>> : r \in gone}
    /\ follower_map' = DiscardAll(fm, gone)
    /\ following_map' = DiscardAll(gm, {<<r[2], r[1]>> : r \in gone})

\* mutant: the following view is not trimmed
RemoveEdgesKeepFollowing(fm, gm, gone) ==
    /\ relationships' = relationships \ gone
    /\ follower_map' = DiscardAll(fm, {<<r[2], r[1]>> : r \in gone})
    /\ following_map' = gm

\* relationships.discard(rel) with both adjacency views, for every rel of gone
RemoveEdges(fm, gm, gone) ==
    /\ relationships' = relationships \ gone
    /\ follower_map' = DiscardAll(fm, {<<r[2], r[1]>> : r \in gone})
    /\ following_map' = DiscardAll(gm, gone)

\* the exception a phase step ends with
Raise(exc) ==
    /\ raised' = exc
    /\ UNCHANGED <<relationships, pipe>>

\* position idx is done: move on, or finish the phase after the last user
Advance ==
    /\ raised' = "none"
    /\ IF idx < Len(AllUsers)
         THEN idx' = idx + 1 /\ UNCHANGED <<phase, pipe>>
         ELSE /\ idx' = 0
              /\ phase' = "idle"
              /\ pipe' = IF pipe = "" /\ phase = "A" THEN "A"
                         ELSE IF pipe = "A" /\ phase = "B" THEN "AB"
                         ELSE IF pipe = "AB" /\ phase = "C" THEN "ABC"
                         ELSE "other"

\* Phases B and C query the range of a tier when its list is reached, users
\* or not: the tiers whose query comes before the user at position i
TiersUpTo(i) == {t \in TierSet : TierPos(t) <= TierPos(TierAt(i))}

\* position idx is done in a phase that queries a range per tier, failing
\* carries the tiers whose query raises: the empty tiers after the last user
\* are still queried
AdvanceOver(failing) ==
    IF idx = Len(AllUsers) /\ failing \ TiersUpTo(idx) # {}
      THEN raised' = "KeyError" /\ UNCHANGED <<phase, idx, pipe>>
      ELSE Advance

Running(p) ==
    /\ phase = p
    /\ raised = "none"
    /\ idx >= 1
    /\ idx <= Len(AllUsers)

\* RelationshipGenerator(segments, segmentation)
NewGenerator ==
    /\ phase = "nogen"
    /\ nCalls >= 1
    /\ phase' = "idle"
    /\ UNCHANGED <<held, driver, draw, ret, cfg, seed, numUsers, rng>>
    /\ UNCHANGED segVars
    /\ UNCHANGED <<relationships, follower_map, following_map, idx, raised, pipe>>

\* a phase method is entered; a phase over an empty user list returns at once
Start(p) ==
    /\ phase = "idle"
    /\ raised = "none"
    /\ Len(AllUsers) > 0
    /\ phase' = p
    /\ idx' = 1
    /\ draw' = NoDraw
    /\ ret' = NoCall
    /\ UNCHANGED <<held, driver, cfg, seed, numUsers, rng>>
    /\ UNCHANGED segVars
    /\ UNCHANGED <<relationships, follower_map, following_map, raised, pipe>>

StartPhase == \E p \in {"A", "B", "C"} : Start(p)

\* generate_followers_first, the loop body for one follower_id
StepA ==
    /\ Running("A")
    /\ LET follower_id == AllUsers[idx]
           range == GetFollowingRange(UserTier(follower_id))
       IN  IF GetFollowingRangeRaises(UserTier(follower_id))
             THEN /\ Raise("KeyError")
                  /\ UNCHANGED <<follower_map, following_map, phase, idx, draw>>
           ELSE IF range[1] > range[2]
             THEN /\ Raise("ValueError")
                  /\ UNCHANGED <<follower_map, following_map, phase, idx, draw>>
             ELSE \E k \in range[1]..range[2] :
                    IF k > 0 /\ Drawable = {}
                      THEN /\ Raise("ValueError")
                           /\ UNCHANGED <<follower_map, following_map, phase, idx, draw>>
                      ELSE \E out \in SelectLoop(follower_id, k, {}, 0) :
                             LET selected == out[1]
                                 new == {rel \in {<<follower_id, t>> : t \in selected} :
                                            rel \notin relationships}
                             IN  /\ AddEdges(follower_map, following_map, new)
                                 /\ draw' = [Locals("A", follower_id,
                                                    Cardinality(Get(following_map,
                                                                    follower_id)),
                                                    k, -1)
                                               EXCEPT !.attempts = out[2],
                                                      !.short = Cardinality(selected) < k]
                                 /\ Advance
    /\ UNCHANGED <<held, driver, ret, cfg, seed, numUsers, rng>>
    /\ UNCHANGED segVars

\* enforce_following_limits, the loop body for one user_id
StepB ==
    /\ Running("B")
    /\ LET user_id == AllUsers[idx]
           range == GetFollowingRange(TierAt(idx))
           current_following == Cardinality(Get(following_map, user_id))
       IN  IF \E t \in TiersUpTo(idx) : GetFollowingRangeRaises(t)
             THEN /\ Raise("KeyError")
                  /\ UNCHANGED <<follower_map, following_map, phase, idx, draw>>
           ELSE IF current_following > range[2]
             THEN IF range[1] > range[2]
                    THEN /\ Raise("ValueError")
                         /\ following_map' = Touch(following_map, {user_id})
                         /\ draw' = Locals("B", user_id, current_following, -1, -1)
                         /\ UNCHANGED <<follower_map, phase, idx>>
                    ELSE \E target_following \in range[1]..range[2] :
                         \E to_remove \in
                              {r \in SUBSET Get(following_map, user_id) :
                                 Cardinality(r) = current_following - target_following} :
                            LET gone == {<<user_id, t>> : t \in to_remove}
                            IN  /\ RemoveEdges(follower_map,
                                               Touch(following_map, {user_id}), gone)
                                /\ draw' = Locals("B", user_id, current_following,
                                                  target_following, -1)
                                /\ AdvanceOver({t \in TierSet : GetFollowingRangeRaises(t)})
             ELSE /\ following_map' = Touch(following_map, {user_id})
                  /\ draw' = Locals("B", user_id, current_following, -1, -1)
                  /\ UNCHANGED <<relationships, follower_map>>
                  /\ AdvanceOver({t \in TierSet : GetFollowingRangeRaises(t)})
    /\ UNCHANGED <<held, driver, ret, cfg, seed, numUsers, rng>>
    /\ UNCHANGED segVars

\* mutant: the pool is drawn from the small tier alone
CandidatesSmallOnly(uid) ==
    {c \in SeqRange(segments.small) : c # uid /\ c \notin Get(follower_map, uid)}

\* mutant: users that follow uid already are not left out
CandidatesWithFollowers(uid) ==
    {c \in SeqRange(AllUsers) : c # uid}

\* mutant: the test c != uid is missing
CandidatesWithSelf(uid) ==
    {c \in SeqRange(AllUsers) : c \notin Get(follower_map, uid)}

\* the candidate pool of the padding branch of ensure_minimum_followers
Candidates(uid) ==
    {c \in SeqRange(AllUsers) : c # uid /\ c \notin Get(follower_map, uid)}

\* ensure_minimum_followers, the loop body for one uid
StepC ==
    /\ Running("C")
    /\ LET uid == AllUsers[idx]
           target_range == GetFollowerRange(TierAt(idx))
           current == Cardinality(Get(follower_map, uid))
           pool == Cardinality(Candidates(uid))
       IN  IF \E t \in TiersUpTo(idx) : GetFollowerRangeRaises(t)
             THEN /\ Raise("KeyError")
                  /\ UNCHANGED <<follower_map, following_map, phase, idx, draw>>
           ELSE IF target_range = <<0, 0>>
             THEN /\ UNCHANGED <<relationships, follower_map, following_map>>
                  /\ draw' = Locals("C", uid, current, -1, -1)
                  /\ AdvanceOver({t \in TierSet : GetFollowerRangeRaises(t)})
             ELSE IF target_range[1] > target_range[2]
               THEN /\ Raise("ValueError")
                    /\ follower_map' = Touch(follower_map, {uid})
                    /\ draw' = Locals("C", uid, current, -1, -1)
                    /\ UNCHANGED <<following_map, phase, idx>>
               ELSE \E target \in target_range[1]..target_range[2] :
                     IF current > target
                       THEN \E to_remove \in
                                 {r \in SUBSET Get(follower_map, uid) :
                                    Cardinality(r) = current - target} :
                               LET gone == {<<f, uid>> : f \in to_remove}
                               IN  /\ RemoveEdges(Touch(follower_map, {uid}),
                                                  following_map, gone)
                                   /\ draw' = Locals("C", uid, current, target, -1)
                                   /\ AdvanceOver({t \in TierSet :
                                                     GetFollowerRangeRaises(t)})
                       ELSE IF current < target /\ Candidates(uid) # {}
                         THEN \E new_followers \in
                                   {r \in SUBSET Candidates(uid) :
                                      Cardinality(r) = Min(target - current, pool)} :
                                 LET new == {rel \in {<<f, uid>> : f \in new_followers} :
                                                rel \notin relationships}
                                 IN  /\ AddEdges(Touch(follower_map, {uid}),
                                                  following_map, new)
                                     /\ draw' = Locals("C", uid, current, target, pool)
                                     /\ AdvanceOver({t \in TierSet :
                                                       GetFollowerRangeRaises(t)})
                         ELSE /\ follower_map' = Touch(follower_map, {uid})
                              /\ draw' = Locals("C", uid, current, target,
                                                IF current < target THEN pool ELSE -1)
                              /\ UNCHANGED <<relationships, following_map>>
                              /\ AdvanceOver({t \in TierSet : GetFollowerRangeRaises(t)})
    /\ UNCHANGED <<held, driver, ret, cfg, seed, numUsers, rng>>
    /\ UNCHANGED segVars

(***************************************************************************)
(* core/generator.py: get_statistics                                       *)
(***************************************************************************)
RECURSIVE Gcd(_, _)
Gcd(a, b) == IF b = 0 THEN a ELSE Gcd(b, a % b)

\* a / b for two small non-negative integers: the double nearest to the
\* quotient, kept as the fraction in lowest terms (equal quotients give
\* equal doubles, different quotients of small integers different doubles)
TrueDiv(a, b) == <<a \div Gcd(a, b), b \div Gcd(a, b)>>

RECURSIVE SumSeq(_)
SumSeq(q) == IF q = <<>> THEN 0 ELSE Head(q) + SumSeq(Tail(q))

\* the entry of one tier: [len(m[uid]) for uid in users] summarised
TierStatistics(m, users) ==
    LET counts == [i \in 1..Len(users) |-> Cardinality(Get(m, users[i]))]
        values == SeqRange(counts)
    IN  [count |-> Len(users),
         min |-> IF counts = <<>> THEN 0
                 ELSE CHOOSE x \in values : \A y \in values : x <= y,
         max |-> IF counts = <<>> THEN 0
                 ELSE CHOOSE x \in values : \A y \in values : x >= y,
         avg |-> IF counts = <<>> THEN <<0, 1>>
                 ELSE TrueDiv(SumSeq(counts), Len(counts))]

\* mutant: the total is the number of keys of follower_map
StatisticsCountsKeys ==
    [total_relationships |-> Cardinality(DOMAIN follower_map),
     follower_stats |->
        [t \in DOMAIN segments |-> TierStatistics(follower_map, segments[t])],
     following_stats |->
        [t \in DOMAIN segments |-> TierStatistics(following_map, segments[t])]]

\* the dict get_statistics returns
Statistics ==
    [total_relationships |-> Cardinality(relationships),
     follower_stats |->
        [t \in DOMAIN segments |-> TierStatistics(follower_map, segments[t])],
     following_stats |->
        [t \in DOMAIN segments |-> TierStatistics(following_map, segments[t])]]

\* get_statistics, called between phases or after a phase has raised:
\* reading m[uid] of a defaultdict inserts every missing uid
GetStatistics ==
    /\ phase = "idle" \/ (phase \in {"A", "B", "C"} /\ raised # "none")
    /\ ret.n < MaxCalls
    /\ ret' = [call |-> "get_statistics", arg |-> "", value |-> Statistics,
               n |-> IF ret.call = "get_statistics" THEN ret.n + 1 ELSE 1]
    /\ follower_map' = Touch(follower_map, SeqRange(AllUsers))
    /\ following_map' = Touch(following_map, SeqRange(AllUsers))
    /\ UNCHANGED <<relationships, phase, idx, raised, pipe>>
    /\ UNCHANGED <<held, driver, draw, cfg, seed, numUsers, rng>>
    /\ UNCHANGED segVars

(***************************************************************************)
(* core/generator.py: get_relationships, get_follower_map,                 *)
(* get_following_map.  get_relationships returns self.relationships, the   *)
(* generator's own set; the other two return dict(self.<map>), a new dict  *)
(* whose values are the generator's own per-user sets.  The phases change  *)
(* all of these sets in place (add, discard) and never rebind a key.       *)
(* held keeps how the value was got, the keys of the returned dict, and    *)
(* snap, the contents at the time of the call.                             *)
(***************************************************************************)
GeneratorAtRest == phase = "idle" \/ (phase \in {"A", "B", "C"} /\ raised # "none")

\* return self.relationships
GetRelationships ==
    /\ GeneratorAtRest
    /\ held.call = "none"
    /\ held' = [call |-> "get_relationships", keys |-> {}, snap |-> relationships,
                changed |-> FALSE]
    /\ UNCHANGED <<driver, draw, ret, cfg, seed, numUsers, rng>>
    /\ UNCHANGED segVars
    /\ UNCHANGED genVars

\* return dict(self.follower_map)
GetFollowerMap ==
    /\ GeneratorAtRest
    /\ held.call = "none"
    /\ held' = [call |-> "get_follower_map", keys |-> DOMAIN follower_map,
                snap |-> follower_map, changed |-> FALSE]
    /\ UNCHANGED <<driver, draw, ret, cfg, seed, numUsers, rng>>
    /\ UNCHANGED segVars
    /\ UNCHANGED genVars

\* return dict(self.following_map)
GetFollowingMap ==
    /\ GeneratorAtRest
    /\ held.call = "none"
    /\ held' = [call |-> "get_following_map", keys |-> DOMAIN following_map,
                snap |-> following_map, changed |-> FALSE]
    /\ UNCHANGED <<driver, draw, ret, cfg, seed, numUsers, rng>>
    /\ UNCHANGED segVars
    /\ UNCHANGED genVars

\* what the caller reads through the value it keeps
Visible ==
    IF held.call = "get_relationships" THEN relationships
    ELSE IF held.call = "get_follower_map"
      THEN [u \in held.keys |-> Get(follower_map, u)]
    ELSE IF held.call = "get_following_map"
      THEN [u \in held.keys |-> Get(following_map, u)]
    ELSE <<>>

\* the caller adds an element to a set it reaches through the value:
\* value.add((a, b)) on the returned edge set, value[u].add(x) on a returned map
CallerAdds ==
    /\ held.call # "none"
    /\ ~held.changed
    /\ held' = [held EXCEPT !.changed = TRUE]
    /\ \/ /\ held.call = "get_relationships"
          /\ \E a, b \in SeqRange(AllUsers) :
                /\ <<a, b>> \notin relationships
                /\ relationships' = relationships \cup {<<a, b>>}
          /\ UNCHANGED <<follower_map, following_map>>
       \/ /\ held.call = "get_follower_map"
          /\ \E u \in held.keys : \E x \in SeqRange(AllUsers) \ Get(follower_map, u) :
                follower_map' = [follower_map EXCEPT ![u] = @ \cup {x}]
          /\ UNCHANGED <<relationships, following_map>>
       \/ /\ held.call = "get_following_map"
          /\ \E u \in held.keys : \E x \in SeqRange(AllUsers) \ Get(following_map, u) :
                following_map' = [following_map EXCEPT ![u] = @ \cup {x}]
          /\ UNCHANGED <<relationships, follower_map>>
    /\ UNCHANGED <<phase, idx, raised, pipe>>
    /\ UNCHANGED <<driver, draw, ret, cfg, seed, numUsers, rng>>
    /\ UNCHANGED segVars

\* the caller removes a key of a returned dict: value.pop(u)
CallerPops ==
    /\ held.call \in {"get_follower_map", "get_following_map"}
    /\ ~held.changed
    /\ \E u \in held.keys : held' = [held EXCEPT !.keys = @ \ {u}, !.changed = TRUE]
    /\ UNCHANGED <<driver, draw, ret, cfg, seed, numUsers, rng>>
    /\ UNCHANGED segVars
    /\ UNCHANGED genVars

(***************************************************************************)
(* load_dynamodb.py and load_dynamodb_with_validation.py: generate_and_load *)
(***************************************************************************)
Drivers == {"load_dynamodb", "load_dynamodb_with_validation"}

\* the phase calls of the two scripts, in the order they are written
DriverNextPhase ==
    \/ driver \in Drivers /\ pipe = "" /\ Start("A")
    \/ driver = "load_dynamodb" /\ pipe = "A" /\ Start("B")
    \/ driver = "load_dynamodb_with_validation" /\ pipe = "A" /\ Start("C")

\* load_dynamodb.py: generator.enforce_follower_limits(), a method that
\* RelationshipGenerator does not define
EnforceFollowerLimits ==
    /\ driver = "load_dynamodb"
    /\ pipe = "AB"
    /\ phase = "idle"
    /\ raised = "none"
    /\ raised' = "AttributeError"
    /\ UNCHANGED <<relationships, follower_map, following_map, phase, idx, pipe>>
    /\ UNCHANGED <<held, driver, draw, ret, cfg, seed, numUsers, rng>>
    /\ UNCHANGED segVars

\* every phase call of the script has returned
DriverGenerated ==
    /\ phase = "idle"
    /\ raised = "none"
    /\ IF driver = "load_dynamodb" THEN FALSE
       ELSE driver = "load_dynamodb_with_validation" /\ pipe = "other"

\* stats = generator.get_statistics()
DriverStatistics == DriverGenerated /\ ret.call = "none" /\ GetStatistics

\* follower_map = generator.get_follower_map(); following_map =
\* generator.get_following_map(); load_to_dynamodb(...)
LoadToDynamoDB ==
    /\ DriverGenerated
    /\ ret.call = "get_statistics"
    /\ ret' = [call |-> "load_to_dynamodb", arg |-> "",
               value |-> <<follower_map, following_map>>, n |-> 1]
    /\ UNCHANGED genVars
    /\ UNCHANGED <<held, driver, draw, cfg, seed, numUsers, rng>>
    /\ UNCHANGED segVars

(***************************************************************************)
(* tests/generate_test_local.py: the local pipeline, with its own          *)
(* UserSegmentation (fixed ratios, range tables by population bracket) and *)
(* its own RelationshipGenerator (followers assigned first, following      *)
(* trimmed, followers padded by tier priority)                             *)
(***************************************************************************)
LegacyTables ==
    [ ratios |->
        [small |-> Ratio(80, 100, -5, 50), medium |-> Ratio(15, 100, 5, 53),
         big |-> Ratio(499, 10000, 1, 50)],
      follower |->
        << [small |-> <<1, 99>>, medium |-> <<100, 499>>,
            big |-> <<500, 1999>>, top |-> <<2000, 4999>>],
           [small |-> <<1, 499>>, medium |-> <<500, 2499>>,
            big |-> <<2500, 9999>>, top |-> <<10000, 24999>>],
           [small |-> <<1, 1999>>, medium |-> <<2000, 9999>>,
            big |-> <<10000, 39999>>, top |-> <<40000, 99999>>] >>,
      following |->
        << [small |-> <<1, 49>>, medium |-> <<1, 49>>,
            big |-> <<0, 25>>, top |-> <<0, 25>>],
           [small |-> <<1, 299>>, medium |-> <<1, 299>>,
            big |-> <<0, 125>>, top |-> <<0, 125>>],
           [small |-> <<1, 999>>, medium |-> <<1, 999>>,
            big |-> <<0, 500>>, top |-> <<0, 500>>] >> ]

\* the same tables with the ratios and the first bracket set for populations
\* of a handful of users, so that every tier is populated and the following
\* limits are within reach of MaxUsers
LegacySmallTables ==
    [ LegacyTables EXCEPT
        !.ratios = [small |-> Ratio(35, 100, 40, 54), medium |-> Ratio(35, 100, 40, 54),
                    big |-> Ratio(30, 100, 20, 54)],
        !.follower[1] = [small |-> <<1, 2>>, medium |-> <<2, 3>>,
                          big |-> <<2, 3>>, top |-> <<3, 4>>],
        !.following[1] = [small |-> <<1, 1>>, medium |-> <<1, 1>>,
                           big |-> <<0, 1>>, top |-> <<0, 1>>] ]

\* a population that lets one small user reach ten followees above its limit
OverflowUsers == 13

\* the same tables with the ratios and the first bracket set so that the
\* padding allowance of ensure_minimum_followers is exhausted: one small and
\* one big user, the others top users who each want everybody as a follower
LegacyOverflowTables ==
    [ LegacyTables EXCEPT
        !.ratios = [small |-> Ratio(1, 10, -4, 56), medium |-> R_0,
                    big |-> Ratio(1, 10, -4, 56)],
        !.follower[1] = [small |-> <<0, 0>>, medium |-> <<0, 0>>,
                          big |-> <<0, 0>>,
                          top |-> <<OverflowUsers, OverflowUsers>>],
        !.following[1] = [small |-> <<0, 0>>, medium |-> <<0, 0>>,
                           big |-> <<0, 1>>, top |-> <<0, 0>>] ]

LegacyCfgs == {"legacy", "legacy-small", "legacy-overflow"}

Legacy ==
    CASE cfg = "legacy" -> LegacyTables
      [] cfg = "legacy-overflow" -> LegacyOverflowTables
      [] OTHER -> LegacySmallTables

\* UserSegmentation.__init__ of generate_test_local.py
LegacyNewSegmentation(n) ==
    LET small == IntOfProduct(n, Legacy.ratios.small)
        medium == IntOfProduct(n, Legacy.ratios.medium)
        big == IntOfProduct(n, Legacy.ratios.big)
    IN  [total_users |-> n,
         small_count |-> small,
         medium_count |-> medium,
         big_count |-> big,
         top_count |-> Max(1, n - small - medium - big)]

\* if total <= 5000 ... elif total <= 25000 ... else
LegacyBracket ==
    IF segmentation.total_users <= 5000 THEN 1
    ELSE IF segmentation.total_users <= 25000 THEN 2
    ELSE 3

LegacyFollowerRange(user_type) == Legacy.follower[LegacyBracket][user_type]

LegacyFollowingRange(user_type) == Legacy.following[LegacyBracket][user_type]

LegacyConstruct ==
    /\ segmentation.total_users = 0
    /\ segmentation' = LegacyNewSegmentation(numUsers)
    /\ UNCHANGED <<held, driver, draw, ret, cfg, seed, numUsers, rng, segments, prevSegments, nCalls>>
    /\ UNCHANGED genVars

\* segment_users of generate_test_local.py: shuffle with the process-wide
\* generator as it is, then slice
LegacySegmentUsers ==
    /\ segmentation.total_users > 0
    /\ phase = "nogen"
    /\ nCalls = 0
    /\ \E s0 \in (IF rng = Entropy THEN RngStates ELSE {rng}) :
          LET out == Shuffle(UserIds, s0)
          IN  /\ segments' = SliceSegments(segmentation, out[1])
              /\ rng' = IF rng = Entropy THEN Entropy ELSE out[2]
    /\ prevSegments' = segments
    /\ nCalls' = nCalls + 1
    /\ UNCHANGED <<held, driver, draw, ret, cfg, seed, numUsers, segmentation>>
    /\ UNCHANGED genVars

\* RelationshipGenerator(segments, segmentation) of generate_test_local.py
LegacyNewGenerator ==
    /\ phase = "nogen"
    /\ nCalls >= 1
    /\ phase' = "idle"
    /\ UNCHANGED <<held, driver, draw, ret, cfg, seed, numUsers, rng>>
    /\ UNCHANGED segVars
    /\ UNCHANGED <<relationships, follower_map, following_map, idx, raised, pipe>>

\* main and run_generator: the three phases in order
LegacyStartNextPhase ==
    \/ pipe = "" /\ Start("A")
    \/ pipe = "A" /\ Start("B")
    \/ pipe = "AB" /\ Start("C")

\* generate_followers_first, the loop body for one user_id.  powerlaw_random
\* returns a value of follower_range, both ends included.
LegacyStepA ==
    /\ Running("A")
    /\ LET user_id == AllUsers[idx]
           follower_range == LegacyFollowerRange(TierAt(idx))
           possible_followers == SeqRange(AllUsers) \ {user_id}
       IN  \E drawn \in follower_range[1]..follower_range[2] :
             LET num_followers == Min(drawn, Cardinality(possible_followers))
             IN  \E selected_followers \in
                      {r \in SUBSET possible_followers :
                         Cardinality(r) = num_followers} :
                    /\ AddEdges(follower_map, following_map,
                                {<<f, user_id>> : f \in selected_followers})
                    /\ Advance
    /\ UNCHANGED <<held, driver, draw, ret, cfg, seed, numUsers, rng>>
    /\ UNCHANGED segVars

\* enforce_following_limits, the loop body for one user_id
LegacyStepB ==
    /\ Running("B")
    /\ LET user_id == AllUsers[idx]
           range == LegacyFollowingRange(TierAt(idx))
           current_following == Cardinality(Get(following_map, user_id))
       IN  IF current_following > range[2]
             THEN \E target_following \in range[1]..range[2] :
                  \E to_remove \in
                       {r \in SUBSET Get(following_map, user_id) :
                          Cardinality(r) = current_following - target_following} :
                     LET gone == {<<user_id, t>> : t \in to_remove}
                     IN  /\ RemoveEdges(follower_map,
                                        Touch(following_map, {user_id}), gone)
                         /\ Advance
             ELSE /\ following_map' = Touch(following_map, {user_id})
                  /\ UNCHANGED <<relationships, follower_map>>
                  /\ Advance
    /\ UNCHANGED <<held, driver, draw, ret, cfg, seed, numUsers, rng>>
    /\ UNCHANGED segVars

\* the users of one tier list that are asked for their following count:
\* not user_id, not yet following user_id
LegacyAsked(tier, user_id) ==
    {c \in SeqRange(segments[tier]) : c # user_id /\ <<c, user_id>> \notin relationships}

\* the same test with the limit itself still counted as room
LegacyWithRoomInclusive(tier, user_id, limit) ==
    {c \in LegacyAsked(tier, user_id) : Cardinality(Get(following_map, c)) <= limit}

\* those of them with room: fewer than limit followees
LegacyWithRoom(tier, user_id, limit) ==
    {c \in LegacyAsked(tier, user_id) : Cardinality(Get(following_map, c)) < limit}

\* potential_followers: small users first, medium users when they are not
\* enough, big users when they are still not enough and user_id is a top user
LegacyPotential(user_type, user_id, needed) ==
    LET over == IF user_type \in {"big", "top"} THEN 10 ELSE 0
        p1 == LegacyWithRoom("small", user_id, LegacyFollowingRange("small")[2] + over)
        p2 == IF Cardinality(p1) < needed
                THEN LegacyWithRoom("medium", user_id,
                                    LegacyFollowingRange("medium")[2] + over)
                ELSE {}
        p3 == IF Cardinality(p1 \cup p2) < needed /\ user_type = "top"
                THEN LegacyWithRoom("big", user_id, LegacyFollowingRange("big")[2])
                ELSE {}
    IN  p1 \cup p2 \cup p3

\* the keys of following_map the three scans read
LegacyScanned(user_type, user_id, needed) ==
    LET over == IF user_type \in {"big", "top"} THEN 10 ELSE 0
        p1 == LegacyWithRoom("small", user_id, LegacyFollowingRange("small")[2] + over)
        p2 == IF Cardinality(p1) < needed
                THEN LegacyWithRoom("medium", user_id,
                                    LegacyFollowingRange("medium")[2] + over)
                ELSE {}
    IN  LegacyAsked("small", user_id)
          \cup (IF Cardinality(p1) < needed THEN LegacyAsked("medium", user_id) ELSE {})
          \cup (IF Cardinality(p1 \cup p2) < needed /\ user_type = "top"
                  THEN LegacyAsked("big", user_id) ELSE {})

\* ensure_minimum_followers, the loop body for one user_id
LegacyStepC ==
    /\ Running("C")
    /\ LET user_id == AllUsers[idx]
           user_type == TierAt(idx)
           min_followers == LegacyFollowerRange(user_type)[1]
           current_followers == Cardinality(Get(follower_map, user_id))
           needed == min_followers - current_followers
           potential_followers == LegacyPotential(user_type, user_id, needed)
           scanned == LegacyScanned(user_type, user_id, needed)
       IN  IF current_followers < min_followers
             THEN \E selected \in
                      {r \in SUBSET potential_followers :
                         Cardinality(r) = Min(needed, Cardinality(potential_followers))} :
                    /\ AddEdges(Touch(follower_map, {user_id}),
                                Touch(following_map, scanned),
                                {<<f, user_id>> : f \in selected})
                    /\ Advance
             ELSE /\ follower_map' = Touch(follower_map, {user_id})
                  /\ UNCHANGED <<relationships, following_map>>
                  /\ Advance
    /\ UNCHANGED <<held, driver, draw, ret, cfg, seed, numUsers, rng>>
    /\ UNCHANGED segVars

GenInit ==
    /\ relationships = {}
    /\ follower_map = <<>>
    /\ following_map = <<>>
    /\ phase = "nogen"
    /\ idx = 0
    /\ raised = "none"
    /\ pipe = ""

SegmenterInit ==
    /\ rng \in RngStates \cup {Entropy}
    /\ segmentation = NoSegmentation
    /\ segments = NoSegments
    /\ prevSegments = NoSegments
    /\ nCalls = 0

Init ==
    /\ cfg \in {"ref", "small"}
    /\ seed = SEGMENTATION_SEED
    /\ numUsers \in 1..MaxUsers
    /\ SegmenterInit
    /\ ret = NoCall
    /\ draw = NoDraw
    /\ driver = "none"
    /\ held = NotHeld
    /\ GenInit

Next ==
    \/ Construct
    \/ SegmentUsers
    \/ NewGenerator
    \/ StartPhase
    \/ StepA
    \/ StepB
    \/ StepC

Spec == Init /\ [][Next]_vars

(***************************************************************************)
(* The segmenter alone                                                     *)
(***************************************************************************)
SegInit ==
    /\ cfg \in {"ref", "small"}
    /\ seed \in {SEGMENTATION_SEED, NoSeed}
    /\ numUsers \in (1..MaxSeg) \cup {ScalingUsers}
    /\ SegmenterInit
    /\ ret = NoCall
    /\ draw = NoDraw
    /\ driver = "none"
    /\ held = NotHeld
    /\ GenInit

SegNext == Construct \/ SegmentUsers \/ ExternalSeed

SegSpec == SegInit /\ [][SegNext]_vars

(***************************************************************************)
(* The tier sizes alone: UserSegmentation(total_users) for the populations *)
(* 1..MaxTotal and the populations of the 5000-user scenario and BigUsers  *)
(***************************************************************************)
SizeInit ==
    /\ cfg \in {"ref", "small"}
    /\ seed = SEGMENTATION_SEED
    /\ numUsers \in (1..MaxTotal) \cup {RefScenarioUsers, BigUsers}
    /\ SegmenterInit
    /\ ret = NoCall
    /\ draw = NoDraw
    /\ driver = "none"
    /\ held = NotHeld
    /\ GenInit

SizeNext == Construct

SizeSpec == SizeInit /\ [][SizeNext]_vars

(***************************************************************************)
(* The range queries alone, on the segmentation objects of SizeSpec        *)
(***************************************************************************)
RangeInit == SizeInit

RangeNext == Construct \/ FollowerRangeCall \/ FollowingRangeCall

RangeSpec == RangeInit /\ [][RangeNext]_vars

(***************************************************************************)
(* The drivers' pipeline: the phases once each, in the order A, B, C       *)
(***************************************************************************)
PipeInit ==
    /\ cfg \in {"ref", "small"}
    /\ seed = SEGMENTATION_SEED
    /\ numUsers \in (1..MaxUsers) \cup {BigUsers}
    /\ cfg = "small" => numUsers <= MaxUsers
    /\ SegmenterInit
    /\ ret = NoCall
    /\ draw = NoDraw
    /\ driver = "none"
    /\ held = NotHeld
    /\ rng = Entropy
    /\ GenInit

StartNextPhase ==
    \/ pipe = "" /\ Start("A")
    \/ pipe = "A" /\ Start("B")
    \/ pipe = "AB" /\ Start("C")

\* segments = segmentation.segment_users(user_ids), called once by a driver
SegmentOnce == nCalls = 0 /\ SegmentUsers

PipeNext ==
    \/ Construct
    \/ SegmentOnce
    \/ NewGenerator
    \/ StartNextPhase
    \/ StepA
    \/ StepB
    \/ StepC

PipeSpec == PipeInit /\ [][PipeNext]_vars

\* a phase method that has been entered runs its loop to the end: the code
\* is sequential and nothing else can take the step of the running phase
PipeFairSpec == PipeSpec /\ WF_vars(StepA) /\ WF_vars(StepB) /\ WF_vars(StepC)

(***************************************************************************)
(* The two scripts that load the generated graph into DynamoDB             *)
(***************************************************************************)
DriverInit ==
    /\ cfg \in {"ref", "small"}
    /\ seed = SEGMENTATION_SEED
    /\ numUsers \in 1..MaxUsers
    /\ SegmenterInit
    /\ rng = Entropy
    /\ ret = NoCall
    /\ draw = NoDraw
    /\ driver \in Drivers
    /\ held = NotHeld
    /\ GenInit

DriverNext ==
    \/ Construct
    \/ SegmentOnce
    \/ NewGenerator
    \/ DriverNextPhase
    \/ StepA
    \/ StepB
    \/ StepC
    \/ EnforceFollowerLimits
    \/ DriverStatistics
    \/ LoadToDynamoDB

DriverSpec == DriverInit /\ [][DriverNext]_vars

(***************************************************************************)
(* The pipeline from the import of the package on, under the valid tables, *)
(* under tables that lack MissingTier and under the tier ratios of         *)
(* RatioTables                                                             *)
(***************************************************************************)
ConfigCfgs == {"ref", "small"} \cup ConfigTables \cup DOMAIN RatioTables

ConfigInit ==
    /\ cfg \in ConfigCfgs
    /\ seed = SEGMENTATION_SEED
    /\ numUsers \in 1..MaxUsers
    /\ SegmenterInit
    /\ rng = Entropy
    /\ ret = NoCall
    /\ draw = NoDraw
    /\ driver = "none"
    /\ held = NotHeld
    /\ relationships = {}
    /\ follower_map = <<>>
    /\ following_map = <<>>
    /\ phase = "import"
    /\ idx = 0
    /\ raised = "none"
    /\ pipe = ""

ConfigNext ==
    \/ ImportConfig
    \/ Construct
    \/ SegmentOnce
    \/ NewGenerator
    \/ StartNextPhase
    \/ StepA
    \/ StepB
    \/ StepC

ConfigSpec == ConfigInit /\ [][ConfigNext]_vars

(***************************************************************************)
(* The pipeline and the range queries under tables that give MissingTier   *)
(* no follower range and no following range (validation switched off)      *)
(***************************************************************************)
UnrangedInit ==
    /\ cfg = "unranged"
    /\ seed = SEGMENTATION_SEED
    /\ numUsers \in 1..MaxUsers
    /\ SegmenterInit
    /\ rng = Entropy
    /\ ret = NoCall
    /\ draw = NoDraw
    /\ driver = "none"
    /\ held = NotHeld
    /\ GenInit

UnrangedNext ==
    \/ Construct
    \/ SegmentOnce
    \/ NewGenerator
    \/ StartNextPhase
    \/ StepA
    \/ StepB
    \/ StepC
    \/ FollowerRangeCall
    \/ FollowingRangeCall

UnrangedSpec == UnrangedInit /\ [][UnrangedNext]_vars

(***************************************************************************)
(* The generator of Spec with get_statistics called at any time between    *)
(* the phases                                                              *)
(***************************************************************************)
StatInit == Init

StatNext ==
    \/ Construct
    \/ SegmentUsers
    \/ NewGenerator
    \/ StartPhase
    \/ StepA
    \/ StepB
    \/ StepC
    \/ GetStatistics

StatSpec == StatInit /\ [][StatNext]_vars

(***************************************************************************)
(* The pipeline with a caller that keeps the value of one accessor call    *)
(* and may change it once                                                  *)
(***************************************************************************)
AccessorInit ==
    /\ cfg \in {"ref", "small"}
    /\ seed = SEGMENTATION_SEED
    /\ numUsers \in 1..MaxUsers
    /\ SegmenterInit
    /\ rng = Entropy
    /\ ret = NoCall
    /\ draw = NoDraw
    /\ driver = "none"
    /\ held = NotHeld
    /\ GenInit

AccessorNext ==
    \/ Construct
    \/ SegmentOnce
    \/ NewGenerator
    \/ StartNextPhase
    \/ StepA
    \/ StepB
    \/ StepC
    \/ GetRelationships
    \/ GetFollowerMap
    \/ GetFollowingMap
    \/ CallerAdds
    \/ CallerPops

AccessorSpec == AccessorInit /\ [][AccessorNext]_vars

(***************************************************************************)
(* The local pipeline of generate_test_local.py                            *)
(***************************************************************************)
LegacyInit ==
    /\ cfg \in LegacyCfgs
    /\ seed = NoSeed
    /\ numUsers \in (IF cfg = "legacy-overflow" THEN {OverflowUsers} ELSE 1..MaxUsers)
    /\ SegmenterInit
    /\ rng \in RngStates
    /\ ret = NoCall
    /\ draw = NoDraw
    /\ driver = "none"
    /\ held = NotHeld
    /\ GenInit

LegacyNext ==
    \/ LegacyConstruct
    \/ LegacySegmentUsers
    \/ LegacyNewGenerator
    \/ LegacyStartNextPhase
    \/ LegacyStepA
    \/ LegacyStepB
    \/ LegacyStepC

LegacySpec == LegacyInit /\ [][LegacyNext]_vars

(***************************************************************************)
(* Properties                                                              *)
(***************************************************************************)
FollowersOf(u) == Get(follower_map, u)

FollowingOf(u) == Get(following_map, u)

PipelineDone == pipe = "ABC" /\ phase = "idle"

\* C1: three-way consistency (I1).  Between two user steps of any phase, run
\* in any order and any number of times, (f, t) is in relationships iff f is
\* in follower_map[t] iff t is in following_map[f].
ThreeWayConsistency ==
    /\ \A r \in relationships :
          r[1] \in FollowersOf(r[2]) /\ r[2] \in FollowingOf(r[1])
    /\ \A t \in DOMAIN follower_map : \A f \in follower_map[t] :
          <<f, t>> \in relationships /\ t \in FollowingOf(f)
    /\ \A f \in DOMAIN following_map : \A t \in following_map[f] :
          <<f, t>> \in relationships /\ f \in FollowersOf(t)

\* a phase repeated or run out of the drivers' order, edges present, in the
\* middle of Phase B with a followee that has lost a follower it still follows
C1_Witness ==
    /\ pipe = "other"
    /\ phase = "B"
    /\ idx > 1
    /\ \E r \in relationships : <<r[2], r[1]>> \notin relationships

\* C2: no self-loops (I2).  In every state reached through the phases no
\* pair (u, u) is in relationships and no user is in its own follower set or
\* its own following set.
NoSelfLoops ==
    /\ \A r \in relationships : r[1] # r[2]
    /\ \A u \in DOMAIN follower_map : u \notin follower_map[u]
    /\ \A u \in DOMAIN following_map : u \notin following_map[u]

\* after the pipeline some user is followed by every other user, not by itself
C2_Witness ==
    /\ PipelineDone
    /\ numUsers >= 2
    /\ \E u \in SeqRange(AllUsers) : FollowersOf(u) = SeqRange(AllUsers) \ {u}

\* C3: after the pipeline A, B, C every user whose tier's follower range
\* (min, max) is feasible (min <= total_users - 1) has between min and max
\* followers.
FollowersWithinFeasibleRange ==
    PipelineDone =>
        \A i \in 1..Len(AllUsers) :
            LET range == GetFollowerRange(TierAt(i))
                count == Cardinality(FollowersOf(AllUsers[i]))
            IN  range[1] <= segmentation.total_users - 1 =>
                    range[1] <= count /\ count <= range[2]

\* the pipeline is done, and two users of feasible tiers hold different
\* counts: one the minimum of its range, one more than the minimum of its own
C3_Witness ==
    /\ PipelineDone
    /\ \E i, j \in 1..Len(AllUsers) :
          LET ri == GetFollowerRange(TierAt(i))
              rj == GetFollowerRange(TierAt(j))
          IN  /\ ri[1] >= 1
              /\ ri[1] <= segmentation.total_users - 1
              /\ Cardinality(FollowersOf(AllUsers[i])) = ri[1]
              /\ rj[1] <= segmentation.total_users - 1
              /\ Cardinality(FollowersOf(AllUsers[j])) > rj[1]

\* C4: in every state of the generator no user has more than total_users - 1
\* followers, also when the nominal follower range of its tier exceeds the
\* population.
FollowersBelowPopulation ==
    \A u \in DOMAIN follower_map :
        Cardinality(follower_map[u]) <= segmentation.total_users - 1

\* after the pipeline a user whose nominal maximum exceeds the population
\* holds exactly total_users - 1 followers
C4_Witness ==
    /\ PipelineDone
    /\ numUsers >= 2
    /\ \E i \in 1..Len(AllUsers) :
          /\ GetFollowerRange(TierAt(i))[2] > segmentation.total_users - 1
          /\ Cardinality(FollowersOf(AllUsers[i])) = segmentation.total_users - 1

\* C5: under the reference configuration, for every population size,
\* segment_users followed by Phases A, B and C completes without any
\* operation raising an error.
NoOperationRaises == cfg = "ref" => raised = "none"

\* C6: segment_users returns a partition of its input: every id is in
\* exactly one tier list, exactly once, and the list lengths sum to N.
SegmentsPartitionUsers ==
    nCalls >= 1 =>
        /\ Len(AllUsers) = numUsers
        /\ SeqRange(AllUsers) = 1..numUsers

\* segment_users has returned four non-empty tier lists
C6_Witness ==
    /\ nCalls >= 1
    /\ \A t \in TierSet : Len(segments[t]) >= 1

\* C7: under the configured ratios the tier counts sum to the population:
\* small_count + medium_count + big_count + top_count = total_users.
CountsSumToTotal ==
    (cfg = "ref" /\ segmentation.total_users > 0) =>
        segmentation.small_count + segmentation.medium_count
          + segmentation.big_count + segmentation.top_count
            = segmentation.total_users

\* C8: the length of every tier list returned by segment_users equals the
\* count the segmentation object computed for that tier.
ListLengthsMatchCounts ==
    (cfg = "ref" /\ nCalls >= 1) =>
        /\ Len(segments.small) = segmentation.small_count
        /\ Len(segments.medium) = segmentation.medium_count
        /\ Len(segments.big) = segmentation.big_count
        /\ Len(segments.top) = segmentation.top_count

\* floor(n * num / den) = count
IsFloorOf(count, n, num, den) ==
    count * den <= n * num /\ n * num < (count + 1) * den

\* C9: under the reference ratios small, medium and big hold
\* floor(total_users * ratio), top holds max(1, remainder), and 5000 users
\* give small 4250, medium 700, big 50.
TierSizesFollowFormula ==
    (cfg = "ref" /\ segmentation.total_users > 0) =>
        LET n == segmentation.total_users
            rest == n - segmentation.small_count - segmentation.medium_count
                      - segmentation.big_count
        IN  /\ IsFloorOf(segmentation.small_count, n, 85, 100)
            /\ IsFloorOf(segmentation.medium_count, n, 14, 100)
            /\ IsFloorOf(segmentation.big_count, n, 1, 100)
            /\ segmentation.top_count = (IF rest >= 1 THEN rest ELSE 1)
            /\ n = 5000 =>
                  /\ segmentation.small_count = 4250
                  /\ segmentation.medium_count = 700
                  /\ segmentation.big_count = 50

\* the segmentation object of the 5000-user scenario
C9_Witness ==
    /\ cfg = "ref"
    /\ segmentation.total_users = RefScenarioUsers
    /\ segmentation.small_count = 4250
    /\ segmentation.top_count = 1

\* C10: with a seed configured, two calls of segment_users on the same list
\* return the same partition, whatever the state of the process-wide
\* generator before each call.
SeededSegmentationDeterministic ==
    (seed # NoSeed /\ nCalls >= 2) => segments = prevSegments

\* two seeded calls have returned the same shuffled lists, the second call
\* having started from the fresh entropy the first call left behind
C10_Witness ==
    /\ seed # NoSeed
    /\ nCalls = 2
    /\ rng = Entropy
    /\ segments = prevSegments
    /\ AllUsers # UserIds
    /\ Len(segments.small) >= 2

\* floor(n * r) for the decimal ratio r of a configuration table
FloorOfRatio(n, r) == (n * r.num) \div r.den

PhasesCompleteBeforeLoad ==
    /\ ret.call = "load_to_dynamodb" => pipe = "ABC"
    /\ driver \in Drivers => raised # "AttributeError"

\* C14: after Phases A, B and C have all completed, every user follows at
\* most the max of the following range of its tier.
FollowingWithinLimits ==
    PipelineDone =>
        \A i \in 1..Len(AllUsers) :
            Cardinality(FollowingOf(AllUsers[i])) <= GetFollowingRange(TierAt(i))[2]

\* C15: in the local pipeline of generate_test_local.py, after
\* generate_followers_first, enforce_following_limits and
\* ensure_minimum_followers in that order, every user has at most
\* min(fmax, N - 1) followers and, when fmin <= N - 1, at least fmin.
LegacyFollowersWithinRange ==
    PipelineDone =>
        \A i \in 1..Len(AllUsers) :
            LET range == LegacyFollowerRange(TierAt(i))
                count == Cardinality(FollowersOf(AllUsers[i]))
            IN  /\ count <= Min(range[2], numUsers - 1)
                /\ range[1] <= numUsers - 1 => count >= range[1]

(***************************************************************************)
(* C16: a tier missing from any one of the seven tables keyed by tier is   *)
(* rejected by validate_config at import: the run never leaves the import, *)
(* and no phase ever raises a KeyError for the missing tier.               *)
(***************************************************************************)
TierMissing == \E table \in ConfigTables : DOMAIN Config[table] # TierSet

MissingTierRejectedAtImport ==
    TierMissing => phase = "import" /\ raised \in {"none", "ValueError"}

(***************************************************************************)
(* C17: tier ratios whose sum lies outside [0.99, 1.01] are rejected at    *)
(* import, so that no tier is assigned and no edge generated; tier ratios  *)
(* whose sum lies inside, with every tier defined, pass the validation.    *)
(***************************************************************************)
\* the sum of the ratio literals, in ten-thousandths
DecimalSum(table) ==
    SumSeq([i \in 1..Len(TierOrder) |->
              IF TierOrder[i] \in DOMAIN table
                THEN (table[TierOrder[i]].num * 10000) \div table[TierOrder[i]].den
                ELSE 0])

SumInside ==
    /\ DecimalSum(Config.USER_TIER_RATIOS) >= 9900
    /\ DecimalSum(Config.USER_TIER_RATIOS) <= 10100

RatioSumValidated ==
    /\ ~SumInside =>
          /\ phase = "import"
          /\ raised \in {"none", "ValueError"}
          /\ segmentation = NoSegmentation
          /\ segments = NoSegments
          /\ relationships = {}
    /\ SumInside /\ ~TierMissing => ~(phase = "import" /\ raised # "none")

(***************************************************************************)
(* C18: for a tier name that is not in the range tables both range queries *)
(* return (0, 0), and while a user of such a tier is being processed by     *)
(* Phase A, B or C no edge is added and none is removed: the edge set and  *)
(* the follower and following sets of every user are left as they are.     *)
(***************************************************************************)
Unranged(t) ==
    /\ t \notin DOMAIN Config.FOLLOWER_RATIOS
    /\ t \notin DOMAIN Config.FOLLOWING_RATIOS

SelectionBoundedAndPhaseAEnds ==
    /\ [](/\ draw.attempts <= MAX_FOLLOWEE_SELECTION_ATTEMPTS
          /\ draw.short => raised = "none")
    /\ (phase = "A") ~> (phase # "A" \/ raised # "none")

\* Phase A has just processed a user for whom the loop gave up after the last
\* allowed batch with a partial set, whose edges are in the edge set, and
\* goes on with the next user
C19_Witness ==
    /\ phase = "A"
    /\ idx >= 2
    /\ draw.short
    /\ draw.attempts = MAX_FOLLOWEE_SELECTION_ATTEMPTS
    /\ raised = "none"
    /\ \E t \in SeqRange(AllUsers) : <<AllUsers[idx - 1], t>> \in relationships

(***************************************************************************)
(* C20: a get_statistics call leaves the edge set and every user's         *)
(* follower and following sets as they were, and a call that follows       *)
(* another one with no phase in between returns the value the first one    *)
(* returned.                                                               *)
(***************************************************************************)
StatisticsIdempotent ==
    [][(ret' # ret /\ ret'.call = "get_statistics") =>
          /\ relationships' = relationships
          /\ \A u \in SeqRange(AllUsers) :
                /\ Get(follower_map', u) = Get(follower_map, u)
                /\ Get(following_map', u) = Get(following_map, u)
          /\ ret.call = "get_statistics" => ret'.value = ret.value]_vars

\* get_statistics has been called twice in a row on a graph with edges in
\* which some user had no entry in follower_map before the first call
C20_Witness ==
    /\ ret.call = "get_statistics"
    /\ ret.n = 2
    /\ ret.value.total_relationships > 0
    /\ \E u \in SeqRange(AllUsers) : FollowersOf(u) = {}

(***************************************************************************)
(* C21: the values of get_relationships, get_follower_map and              *)
(* get_following_map are snapshots: as long as the caller has not changed  *)
(* the value it keeps, it reads through it what the call returned,         *)
(* whatever phase has run since; and a change the caller makes through the *)
(* value leaves the generator's edge set and maps as they are.             *)
(***************************************************************************)
ReturnedValuesAreSnapshots ==
    [][/\ (held'.call # "none" /\ ~held'.changed) =>
             Visible' = (IF held'.call = "get_relationships" THEN held'.snap
                         ELSE [u \in held'.keys |-> held'.snap[u]])
       /\ (held'.changed /\ ~held.changed) =>
             /\ relationships' = relationships
             /\ follower_map' = follower_map
             /\ following_map' = following_map]_vars

(***************************************************************************)
(* C22: when enforce_following_limits completes, every user of a           *)
(* recognized tier follows at most the maximum of its tier's following     *)
(* range, and a user that was over the maximum when the phase reached it   *)
(* is left with a following count inside [min, max] of that range, which   *)
(* the rest of the phase does not change.                                  *)
(***************************************************************************)
FollowingCount(u) == Cardinality(Get(following_map, u))

FollowingLimitsEnforced ==
    [][(phase = "B" /\ idx >= 1 /\ raised = "none" /\ raised' = "none") =>
          LET u == AllUsers[idx]
              range == GetFollowingRange(UserTier(u))
              all_users == SeqRange(AllUsers)
              max_following ==
                  [v \in all_users |-> GetFollowingRange(UserTier(v))[2]]
              recognized ==
                  {v \in all_users : UserTier(v) \in DOMAIN Config.FOLLOWING_RATIOS}
          IN  /\ FollowingCount(u) > range[2] =>
                    /\ Cardinality(Get(following_map', u)) >= range[1]
                    /\ Cardinality(Get(following_map', u)) <= range[2]
              /\ \A v \in all_users \ {u} :
                    Get(following_map', v) = Get(following_map, v)
              /\ phase' = "idle" =>
                    \A v \in recognized :
                       Cardinality(Get(following_map', v)) <= max_following[v]]_vars

\* Phase B has just trimmed a user that was over the maximum of its tier
C22_Witness ==
    /\ draw.step = "B"
    /\ draw.uid \in SeqRange(AllUsers)
    /\ draw.current > GetFollowingRange(UserTier(draw.uid))[2]
    /\ draw.target >= 0
    /\ FollowingCount(draw.uid) = draw.target
    /\ raised = "none"

(***************************************************************************)
(* C23: enforce_following_limits adds no edge; every edge it removes has   *)
(* as follower the user being processed, whose following count was above   *)
(* the maximum of its tier; and the following sets of users whose count is *)
(* within the maximum are left as they are.                                *)
(***************************************************************************)
PhaseBOnlyTrimsUsersOverLimit ==
    [][(phase = "B" /\ idx >= 1 /\ raised = "none") =>
          LET u == AllUsers[idx]
              max_following == GetFollowingRange(UserTier(u))[2]
          IN  /\ relationships' \subseteq relationships
              /\ \A rel \in relationships \ relationships' :
                    rel[1] = u /\ FollowingCount(u) > max_following
              /\ \A v \in SeqRange(AllUsers) :
                    (v # u \/ FollowingCount(u) <= max_following) =>
                       Get(following_map', v) = Get(following_map, v)]_vars

\* Phase B has just passed over a user that follows others within its limit
C23_Witness ==
    /\ draw.step = "B"
    /\ draw.uid \in SeqRange(AllUsers)
    /\ draw.target = -1
    /\ draw.current > 0
    /\ draw.current <= GetFollowingRange(UserTier(draw.uid))[2]
    /\ Cardinality(Get(following_map, draw.uid)) = draw.current

(***************************************************************************)
(* C24: a step of ensure_minimum_followers that draws the target T for a   *)
(* user u with c followers leaves u with min(T, N - 1) followers: for      *)
(* c > T exactly c - T edges into u are removed, for c < T exactly         *)
(* min(T - c, |pool|) edges (x, u) are added, with x taken from the users  *)
(* other than u that did not follow u, and for c = T nothing changes.      *)
(***************************************************************************)
PhaseCStepReachesTarget ==
    [][(phase = "C" /\ idx >= 1 /\ raised = "none" /\ raised' = "none"
          /\ draw'.target >= 0) =>
          LET u == AllUsers[idx]
              T == draw'.target
              c == Cardinality(Get(follower_map, u))
              pool == {x \in SeqRange(AllUsers) : x # u /\ x \notin Get(follower_map, u)}
              added == relationships' \ relationships
              removed == relationships \ relationships'
          IN  /\ Cardinality(Get(follower_map', u)) = Min(T, numUsers - 1)
              /\ c > T => /\ added = {}
                          /\ Cardinality(removed) = c - T
                          /\ \A rel \in removed : rel[2] = u
              /\ c < T => /\ removed = {}
                          /\ Cardinality(added) = Min(T - c, Cardinality(pool))
                          /\ \A rel \in added : rel[2] = u /\ rel[1] \in pool
              /\ c = T => added = {} /\ removed = {}]_vars

\* Phase C has just padded a user whose target exceeds the number of other
\* users: the whole pool was added and the user has N - 1 followers
C24_Witness ==
    /\ draw.step = "C"
    /\ draw.target > numUsers - 1
    /\ draw.pool > 0
    /\ draw.pool < draw.target - draw.current
    /\ Cardinality(Get(follower_map, draw.uid)) = numUsers - 1
    /\ raised = "none"

(***************************************************************************)
(* C25: when ensure_minimum_followers reaches a user that is below its     *)
(* target while every other user follows it already, the step raises       *)
(* nothing, leaves the edge set and the follower and following sets of     *)
(* every user as they are, and the loop goes on to the next user.          *)
(***************************************************************************)
EmptyPoolIsSkipped ==
    [][(phase = "C" /\ idx >= 1 /\ raised = "none"
          /\ draw'.step = "C" /\ draw'.uid = AllUsers[idx]
          /\ draw'.target > Cardinality(Get(follower_map, AllUsers[idx]))
          /\ \A x \in SeqRange(AllUsers) \ {AllUsers[idx]} :
                x \in Get(follower_map, AllUsers[idx])) =>
          /\ raised' = "none"
          /\ relationships' = relationships
          /\ \A v \in SeqRange(AllUsers) :
                /\ Get(follower_map', v) = Get(follower_map, v)
                /\ Get(following_map', v) = Get(following_map, v)
          /\ IF idx < Len(AllUsers) THEN phase' = "C" /\ idx' = idx + 1
             ELSE phase' = "idle"]_vars

\* Phase C has skipped a user that every other user follows and that is
\* below its target, and goes on with the next user
C25_Witness ==
    /\ phase = "C"
    /\ idx >= 2
    /\ draw.step = "C"
    /\ draw.uid = AllUsers[idx - 1]
    /\ draw.target > draw.current
    /\ draw.pool = 0
    /\ numUsers > 1
    /\ Cardinality(Get(follower_map, draw.uid)) = numUsers - 1
    /\ raised = "none"

LegacyOverflowBounded ==
    (pipe \in {"AB", "ABC"} /\ phase \in {"idle", "C"}) =>
        \A i \in 1..Len(AllUsers) :
            Cardinality(FollowingOf(AllUsers[i])) <=
                LegacyFollowingRange(TierAt(i))[2]
                    + (IF TierAt(i) \in {"small", "medium"} THEN 10 ELSE 0)

\* the padding has ended with a small user exactly ten followees above its
\* limit, a big user exactly at its limit, and a top user left short of
\* followers because nobody had room
C27_Witness ==
    /\ PipelineDone
    /\ cfg \in LegacyCfgs
    /\ \E i \in 1..Len(AllUsers) :
          /\ TierAt(i) = "small"
          /\ Cardinality(FollowingOf(AllUsers[i])) = LegacyFollowingRange("small")[2] + 10
    /\ \E i \in 1..Len(AllUsers) :
          /\ TierAt(i) = "big"
          /\ Cardinality(FollowingOf(AllUsers[i])) = LegacyFollowingRange("big")[2]
    /\ \E i \in 1..Len(AllUsers) :
          /\ TierAt(i) = "top"
          /\ Cardinality(FollowersOf(AllUsers[i])) < LegacyFollowerRange("top")[1]
          /\ Cardinality(FollowersOf(AllUsers[i])) < Len(AllUsers) - 1

\* C28: out-degree is already bounded after Phase A.  When
\* generate_followers_first runs on an empty graph, the iteration of user u
\* changes the following set of u alone and leaves u with at most k_u
\* followees, k_u at most the max of its tier's following range; so when
\* the phase has ended every user is within its max, and
\* enforce_following_limits run directly afterwards removes no edge.
SeedingStepBounded ==
    (phase = "A" /\ pipe = "" /\ raised = "none" /\ raised' = "none") =>
        LET u == AllUsers[idx]
            max_following == GetFollowingRange(UserTier(u))[2]
        IN  /\ \A i \in 1..Len(AllUsers) :
                  AllUsers[i] # u =>
                      Get(following_map', AllUsers[i]) = Get(following_map, AllUsers[i])
            /\ Cardinality(Get(following_map', u)) <= draw'.target
            /\ draw'.target <= max_following

WithinMaxAfterSeeding ==
    (pipe = "A" /\ phase \in {"idle", "B"}) =>
        \A i \in 1..Len(AllUsers) :
            Cardinality(FollowingOf(AllUsers[i])) <= GetFollowingRange(TierAt(i))[2]

EnforcingRemovesNothing ==
    (pipe = "A" /\ phase = "B") => relationships' = relationships

OutDegreeBoundedAfterSeeding ==
    /\ []WithinMaxAfterSeeding
    /\ [][SeedingStepBounded /\ EnforcingRemovesNothing]_vars

\* Phase B has run directly after Phase A over a graph with edges in which a
\* user follows as many users as its range allows, and has left it as it was
C28_Witness ==
    /\ pipe = "AB"
    /\ phase = "idle"
    /\ draw.step = "B"
    /\ draw.target = -1
    /\ relationships # {}
    /\ \E i \in 1..Len(AllUsers) :
          /\ GetFollowingRange(TierAt(i))[2] > 0
          /\ Cardinality(FollowingOf(AllUsers[i])) = GetFollowingRange(TierAt(i))[2]

\* C29: well-formed following range.  Under the reference configuration,
\* for every recognized tier and every population of at least one user,
\* get_following_range returns (min, max) with min <= max, so that the
\* uniform integer draw over [min, max] in Phases A and B is defined.
FollowingRangeWellFormed ==
    (cfg = "ref" /\ ret.call = "get_following_range" /\ ret.arg \in TierSet) =>
        /\ segmentation.total_users >= 1
        /\ ret.value[1] <= ret.value[2]

\* C30: locality of Phase C.  A step of ensure_minimum_followers that
\* processes user uid changes the follower set of no other user, and changes
\* the following set of a user only by adding or removing uid, and only for
\* the users it makes or unmakes followers of uid; so the follower count a
\* user has after its own step is the count it has when the phase ends.
PhaseCStepIsLocal ==
    (phase = "C" /\ raised = "none" /\ raised' = "none") =>
        LET uid == AllUsers[idx]
            affected == (Get(follower_map', uid) \ Get(follower_map, uid))
                          \cup (Get(follower_map, uid) \ Get(follower_map', uid))
        IN  \A i \in 1..Len(AllUsers) :
               LET v == AllUsers[i]
               IN  /\ v # uid => Get(follower_map', v) = Get(follower_map, v)
                   /\ Get(following_map', v) \ {uid} = Get(following_map, v) \ {uid}
                   /\ Get(following_map', v) # Get(following_map, v) => v \in affected

PhaseCIsLocal == [][PhaseCStepIsLocal]_vars

\* a later user has just been padded with new followers while an earlier
\* user of the same run of the phase, already processed, has followers and
\* is one of the users who became a follower
C30_Witness ==
    /\ phase = "C"
    /\ idx >= 3
    /\ draw.step = "C"
    /\ draw.uid = AllUsers[idx - 1]
    /\ draw.current < draw.target
    /\ Cardinality(FollowersOf(draw.uid)) > draw.current
    /\ FollowersOf(AllUsers[1]) # {}
    /\ AllUsers[1] \in FollowersOf(draw.uid)

====
